---- MODULE Spec2Model ----
(***************************************************************************)
(* Model of src/src/utility/synthetic.py: ClinicalDataGenerator.            *)
(*                                                                         *)
(* Numbers.  Every float of the program is a fixed-point integer counted   *)
(* in thousandths (97.5 is 97500).  Intensities and z-scores are also in   *)
(* thousandths.  numpy's global random source is a 15-bit linear           *)
(* congruential generator: every draw advances it by one step, so a run    *)
(* is a function of the generator state it starts from.                    *)
(***************************************************************************)
EXTENDS Integers, Sequences, FiniteSets, TLC

(***************************************************************************)
(* Bounds of the model.                                                    *)
(***************************************************************************)
\* seeds 0..MaxSeed may be given to np.random.seed
MaxSeed == 1
\* longest event list a caller passes to generate_dataset
MaxEvents == 2

(***************************************************************************)
(* Arithmetic helpers.                                                     *)
(***************************************************************************)
Abs(a) == IF a < 0 THEN -a ELSE a

Min2(a, b) == IF a < b THEN a ELSE b

Max2(a, b) == IF a < b THEN b ELSE a

\* a / b rounded to the nearest integer (b > 0): the fixed-point image of a
\* float division
RDiv(a, b) == (2 * a + b) \div (2 * b)

\* fixed-point product of two thousandths
Mul(a, b) == RDiv(a * b, 1000)

RECURSIVE SumRange(_, _, _)
\* s[lo] + ... + s[hi], by halves
SumRange(s, lo, hi) ==
  IF lo > hi THEN 0
  ELSE IF lo = hi THEN s[lo]
  ELSE LET mid == (lo + hi) \div 2
       IN SumRange(s, lo, mid) + SumRange(s, mid + 1, hi)

SumSeq(s) == SumRange(s, 1, Len(s))

RECURSIVE SqrtIter(_, _, _)
SqrtIter(x, lo, hi) ==
  IF lo >= hi THEN lo
  ELSE LET mid == (lo + hi + 1) \div 2
       IN IF mid * mid <= x THEN SqrtIter(x, mid, hi) ELSE SqrtIter(x, lo, mid - 1)

\* floor of the square root of x, 0 <= x < 2^30
ISqrt(x) == SqrtIter(x, 0, 32767)

\* np.clip(v, lo, hi) on one sample; range <<lo, hi>>
Clip1(v, rng) == Min2(Max2(v, rng[1]), rng[2])

\* np.clip(values, lo, hi)
ClipSeq(values, rng) == [i \in 1..Len(values) |-> Clip1(values[i], rng)]

\* np.mean of a non-empty array
Mean(values) == RDiv(SumSeq(values), Len(values))

RECURSIVE MaxRange(_, _, _)
\* the largest of s[lo], ..., s[hi] and 0, by halves
MaxRange(s, lo, hi) ==
  IF lo > hi THEN 0
  ELSE IF lo = hi THEN Max2(s[lo], 0)
  ELSE LET mid == (lo + hi) \div 2
       IN Max2(MaxRange(s, lo, mid), MaxRange(s, mid + 1, hi))

MaxSeq(s) == MaxRange(s, 1, Len(s))

\* np.std (population standard deviation).  The deviations are scaled down
\* by k before squaring so that the sum of squares fits the integer width.
Std(values) ==
  IF Len(values) = 0 THEN 0
  ELSE LET m == Mean(values)
           dev == [i \in 1..Len(values) |-> Abs(values[i] - m)]
           big == MaxSeq(dev)
           k == IF big <= 3000 THEN 1 ELSE IF big <= 30000 THEN 10
                ELSE IF big <= 300000 THEN 100 ELSE 1000
           sq == [i \in 1..Len(values) |-> (dev[i] \div k) * (dev[i] \div k)]
       IN ISqrt(SumSeq(sq) \div Len(values)) * k

\* np.linspace(a, b, n): n evenly spaced samples from a to b inclusive
Linspace(a, b, n) ==
  [i \in 1..n |-> IF n = 1 THEN a ELSE a + RDiv((b - a) * (i - 1), n - 1)]

\* sin(pi * p / q) for 0 <= p <= q, by Bhaskara's rational approximation
SinHalf(p, q) == RDiv(16000 * p * (q - p), 5 * q * q - 4 * p * (q - p))

\* sin(pi * p / q) for any p >= 0, q > 0
SinPi(p, q) ==
  LET r == p % (2 * q)
  IN IF r <= q THEN SinHalf(r, q) ELSE -SinHalf(r - q, q)

\* cos(pi * p / q) = sin(pi * (2p + q) / 2q)
CosPi(p, q) == SinPi(2 * p + q, 2 * q)

(***************************************************************************)
(* The random source (numpy.random global state).                          *)
(***************************************************************************)
\* np.random.seed(seed)
SeedState(seed) == (seed * 7919 + 12345) % 32768

\* one step of the generator
NextRng(s) == (25173 * (s % 32768) + 13849) % 32768

RECURSIVE Jump(_)
\* the affine map <<a, c>> (x |-> a x + c) that n steps of the generator make
Jump(n) ==
  IF n <= 0 THEN <<1, 0>>
  ELSE LET h == Jump(n \div 2)
           sq == <<(h[1] * h[1]) % 32768, (h[1] * h[2] + h[2]) % 32768>>
       IN IF n % 2 = 0 THEN sq
          ELSE <<(25173 * sq[1]) % 32768, (25173 * sq[2] + 13849) % 32768>>

\* the state after n draws
RngAfter(s, n) == LET j == Jump(n) IN (j[1] * (s % 32768) + j[2]) % 32768

\* the n states that follow s
RngStream(s, n) == [i \in 1..n |-> RngAfter(s, i)]

ZTable == <<-3000, -2000, -1500, -1000, -500, 0, 500, 1000, 1500, 2000, 3000>>

\* a standard normal deviate read off a generator state
ZScore(r) == ZTable[((r \div 64) % 11) + 1]

\* a uniform deviate in [0, 1) read off a generator state
Uniform(r) == (r \div 16) % 1000

\* np.random.normal(mu, sigma, n), drawn from the states stream[off+1..off+n]
Normal(stream, off, mu, sigma, n) ==
  [i \in 1..n |-> mu + Mul(sigma, ZScore(stream[off + i]))]

(***************************************************************************)
(* Configuration (self.config) and its defaults.                           *)
(***************************************************************************)
RequiredKeys ==
  {"base_time", "duration_hours", "resolution_min", "signal_ranges", "event_definitions"}

\* the channels generate_base_signals creates, in creation order
Channels ==
  << "SpO2", "pulse_rate", "blood_pressure_sys", "resp_rate", "temperature",
     "pupil_diameter_left", "pupil_diameter_right", "gaze_x", "gaze_y",
     "blink_rate", "fixation_duration" >>

ChannelSet == {Channels[i] : i \in 1..Len(Channels)}

DefaultRanges ==
  [c \in ChannelSet |->
     CASE c = "SpO2" -> <<88000, 100000>>
       [] c = "pulse_rate" -> <<60000, 140000>>
       [] c = "blood_pressure_sys" -> <<90000, 180000>>
       [] c = "resp_rate" -> <<12000, 30000>>
       [] c = "temperature" -> <<36000, 38500>>
       [] c = "pupil_diameter_left" -> <<2000, 8000>>
       [] c = "pupil_diameter_right" -> <<2000, 8000>>
       [] c = "gaze_x" -> <<-30000, 30000>>
       [] c = "gaze_y" -> <<-20000, 20000>>
       [] c = "blink_rate" -> <<0, 1000>>
       [] c = "fixation_duration" -> <<50000, 500000>>]

\* effect rules: {'delta': a}, {'min': a, 'max': b}, a rule with neither
\* key ("none"), and a rule whose delta is not a number ("bad")
Delta(p, d) == [param |-> p, kind |-> "delta", a |-> d, b |-> 0]

Target(p, lo, hi) == [param |-> p, kind |-> "target", a |-> lo, b |-> hi]

NoEffect(p) == [param |-> p, kind |-> "none", a |-> 0, b |-> 0]

BadDelta(p) == [param |-> p, kind |-> "bad", a |-> 0, b |-> 0]

\* each event definition is the sequence of its (channel, rule) items in
\* dict order
DefaultEventDefinitions ==
  [t \in {"hypoxemia", "tachycardia", "fever", "cognitive_load", "fatigue"} |->
     CASE t = "hypoxemia" ->
            << Target("SpO2", 70000, 90000), Delta("pulse_rate", 15000),
               Delta("resp_rate", 5000), Delta("pupil_diameter_left", -1000),
               Delta("pupil_diameter_right", -1000) >>
       [] t = "tachycardia" ->
            << Target("pulse_rate", 110000, 140000),
               Delta("blood_pressure_sys", 20000),
               Delta("pupil_diameter_left", 1500),
               Delta("pupil_diameter_right", 1500) >>
       [] t = "fever" ->
            << Target("temperature", 37800, 39500), Delta("pulse_rate", 10000),
               Delta("pupil_diameter_left", 800),
               Delta("pupil_diameter_right", 800) >>
       [] t = "cognitive_load" ->
            << Delta("pupil_diameter_left", 2000),
               Delta("pupil_diameter_right", 2000),
               Delta("fixation_duration", 100000), Delta("blink_rate", -300) >>
       [] t = "fatigue" ->
            << Delta("blink_rate", 500), Delta("pupil_diameter_left", -1200),
               Delta("pupil_diameter_right", -1200),
               Delta("fixation_duration", -50000) >>]

\* the literal of __init__; base_time is counted in minutes since midnight
DefaultConfig ==
  [ keys |-> RequiredKeys,
    base_time |-> 16 * 60,
    duration_hours |-> 3,
    resolution_min |-> 1,
    signal_ranges |-> DefaultRanges,
    event_definitions |-> DefaultEventDefinitions ]

\* config=None, the default of __init__'s parameter
NoConfig ==
  [ keys |-> {"None"}, base_time |-> 0, duration_hours |-> 0,
    resolution_min |-> 0, signal_ranges |-> <<>>, event_definitions |-> <<>> ]

\* Python truth value of the config argument: None and {} are falsy
Falsy(config) == config = NoConfig \/ config.keys = {}

\* self.config = config or {...}
ConfigOrDefault(config) == IF Falsy(config) THEN DefaultConfig ELSE config

\* validate_config: TRUE when it returns, FALSE when it raises ValueError
ValidateConfig(config) ==
  /\ RequiredKeys \subseteq config.keys
  /\ \A p \in DOMAIN config.signal_ranges :
       ~(config.signal_ranges[p][1] >= config.signal_ranges[p][2])

(***************************************************************************)
(* generate_base_signals                                                   *)
(***************************************************************************)
\* the clip that ends generate_base_signals: only channels with a range
ClipToRange(sr, param, values) ==
  IF param \in DOMAIN sr THEN ClipSeq(values, sr[param]) ELSE values

\* the value of signals after generate_base_signals(num_points), drawing from
\* the random source in state rng0; eleven blocks of num_points draws and one
\* draw for the blink period
BaseSignals(sr, rng0, n) ==
  LET blk(k) == RngStream(RngAfter(rng0, k * n), n)
      norm(k, mu, sigma) == Normal(blk(k), 0, mu, sigma, n)
      m == n - 1
      spo2 == ClipSeq(norm(0, 97500, 1000), sr["SpO2"])
      pulse == norm(1, 80000, 3000)
      bpn == norm(2, 0, 3000)
      rrn == norm(3, 0, 1000)
      temp == norm(4, 36800, 200)
      pln == norm(5, 0, 300)
      prn == norm(6, 0, 100)
      gxn == norm(7, 0, 2000)
      gyn == norm(8, 0, 2000)
      left == [i \in 1..n |-> 4000 + RDiv(pulse[i] - 80000, 50) + pln[i]]
      \* t = linspace(0, 20 pi, n), so 0.1 t[i] = pi * 2(i-1)/(n-1)
      sinT(h, i) == IF m = 0 THEN 0 ELSE SinPi(h * (i - 1), m)
      cosT(h, i) == IF m = 0 THEN 1000 ELSE CosPi(h * (i - 1), m)
      rint == NextRng(RngAfter(rng0, 9 * n))
      step == 20 + (rint % 10)
      ustream == RngStream(rint, n)
      prob(i) == IF ((i - 1) % step = 0) \/ (i >= 2 /\ (i - 2) % step = 0)
                 THEN 800 ELSE 50
      blink == [i \in 1..n |-> IF Uniform(ustream[i]) < prob(i) THEN 1000 ELSE 0]
      fxn == Normal(RngStream(RngAfter(rint, n), n), 0, 0, 30000, n)
      raw == [c \in ChannelSet |->
                CASE c = "SpO2" -> spo2
                  [] c = "pulse_rate" -> pulse
                  [] c = "blood_pressure_sys" ->
                       [i \in 1..n |-> 120000 + RDiv(pulse[i] - 80000, 2) + bpn[i]]
                  [] c = "resp_rate" ->
                       [i \in 1..n |-> 18000 + RDiv(pulse[i] - 80000, 5) + rrn[i]]
                  [] c = "temperature" -> temp
                  [] c = "pupil_diameter_left" -> left
                  [] c = "pupil_diameter_right" -> [i \in 1..n |-> left[i] + prn[i]]
                  [] c = "gaze_x" ->
                       [i \in 1..n |-> 5 * sinT(2, i) + 3 * sinT(6, i) + gxn[i]]
                  [] c = "gaze_y" ->
                       [i \in 1..n |-> 4 * cosT(2, i) + 2 * cosT(4, i) + gyn[i]]
                  [] c = "blink_rate" -> blink
                  [] c = "fixation_duration" ->
                       [i \in 1..n |->
                          (IF blink[i] > 500 THEN 0 ELSE 200000) + fxn[i]]]
  IN [c \in ChannelSet |-> ClipToRange(sr, c, raw[c])]

\* the number of draws generate_base_signals takes from the random source
BaseDraws(n) == 11 * n + 1

\* generate_base_signals: the signals, the random source it leaves, and
\* whether it raised (KeyError: sr['SpO2'] when SpO2 has no range)
GenerateBaseSignals(config, rng0, n) ==
  IF "SpO2" \notin DOMAIN config.signal_ranges
  THEN [raised |-> TRUE, signals |-> <<>>, rng |-> rng0]
  ELSE [raised |-> FALSE,
        signals |-> BaseSignals(config.signal_ranges, rng0, n),
        rng |-> RngAfter(rng0, BaseDraws(n))]

(***************************************************************************)
(* apply_clinical_event                                                    *)
(***************************************************************************)
\* the 1-based positions that the Python slice [start:end] selects in an
\* array of n samples (negative bounds count from the end)
SliceIdx(n, start, end) ==
  LET norm(k) == IF k < 0 THEN Max2(n + k, 0) ELSE Min2(k, n)
  IN (norm(start) + 1)..norm(end)

\* scipy.signal.savgol_filter(x, 5, 2), mode 'interp', for Len(x) >= 5: the
\* least-squares quadratic over five samples, evaluated at the centre of the
\* window and, for the two samples at either end, off-centre in the first and
\* the last window
SavgolRow(x, at, c) ==
  RDiv(c[1] * x[at] + c[2] * x[at + 1] + c[3] * x[at + 2]
       + c[4] * x[at + 3] + c[5] * x[at + 4], 35)

SavgolFilter(x) ==
  LET n == Len(x)
  IN [i \in 1..n |->
        IF i = 1 THEN SavgolRow(x, 1, <<31, 9, -3, -5, 3>>)
        ELSE IF i = 2 THEN SavgolRow(x, 1, <<9, 13, 12, 6, -5>>)
        ELSE IF i = n - 1 THEN SavgolRow(x, n - 4, <<-5, 6, 12, 13, 9>>)
        ELSE IF i = n THEN SavgolRow(x, n - 4, <<3, -5, -3, 9, 31>>)
        ELSE SavgolRow(x, i - 2, <<-3, 12, 17, 12, -3>>)]

\* rules['delta'] * intensity * np.sin(np.pi * x), x = linspace(0, 1, n)
DeltaEffect(delta, intensity, n) ==
  [i \in 1..n |->
     IF n = 1 THEN 0 ELSE Mul(Mul(delta, intensity), SinPi(i - 1, n - 1))]

\* np.linspace(base_value, (min + max)/2, n) + np.random.normal(0, (max - min)/10, n)
TargetEffect(base_value, lo, hi, stream, n) ==
  LET ramp == Linspace(base_value, RDiv(lo + hi, 2), n)
      noise == Normal(stream, 0, 0, RDiv(hi - lo, 10), n)
  IN [i \in 1..n |-> ramp[i] + noise[i]]

\* current_values + effect under numpy broadcasting; <<>> with ok = FALSE
\* when the shapes do not broadcast
BroadcastAdd(cur, eff) ==
  IF Len(cur) = Len(eff)
  THEN [ok |-> TRUE, val |-> [i \in 1..Len(cur) |-> cur[i] + eff[i]]]
  ELSE IF Len(eff) = 1
  THEN [ok |-> TRUE, val |-> [i \in 1..Len(cur) |-> cur[i] + eff[1]]]
  ELSE IF Len(cur) = 1
  THEN [ok |-> TRUE, val |-> [i \in 1..Len(eff) |-> cur[1] + eff[i]]]
  ELSE [ok |-> FALSE, val |-> <<>>]

\* an event window written back as the filter leaves it
ClipWindowNone(sr, param, values) == values

\* the range the event window is clipped to:
\* self.config['signal_ranges'].get(param, (-np.inf, np.inf))
ClipWindow(sr, param, values) ==
  IF param \in DOMAIN sr THEN ClipSeq(values, sr[param]) ELSE values

\* a window written at the head of the array, whatever the start index
WriteWindowAtHead(values, idx, lo, out) ==
  [i \in 1..Len(values) |->
     IF i <= Cardinality(idx)
     THEN (IF Len(out) = 1 THEN out[1] ELSE out[i])
     ELSE values[i]]

\* signals[param][start_idx:end_idx] = out: the slice assignment, in place;
\* idx are the positions of the slice, lo the position before its first
WriteWindow(values, idx, lo, out) ==
  [i \in 1..Len(values) |->
     IF i \in idx
     THEN (IF Len(out) = 1 THEN out[1] ELSE out[i - lo])
     ELSE values[i]]

\* One pass of the loop "for param, rules in event_config.items()".
\* st = [signals, rng, effect, bound, raised]: effect is the local variable
\* effect, bound tells whether it has been assigned yet.
ApplyRule(config, st, rule, start, end, intensity) ==
  LET n == Len(st.signals["SpO2"])
      actual == end - start
      idx == SliceIdx(n, start, end)
      lo == IF idx = {} THEN 0 ELSE (CHOOSE i \in idx : \A j \in idx : i <= j) - 1
      cnt == Cardinality(idx)
      cur == [i \in 1..cnt |-> st.signals[rule.param][lo + i]]
      base_value == IF cnt = 0 THEN 0 ELSE Mean(cur)
      raise == [st EXCEPT !.raised = TRUE]
      draws == IF rule.kind = "target" THEN actual ELSE 0
      eff == CASE rule.kind = "delta" -> DeltaEffect(rule.a, intensity, actual)
               [] rule.kind = "target" ->
                    TargetEffect(base_value, rule.a, rule.b,
                                 RngStream(st.rng, actual), actual)
               [] OTHER -> st.effect
      sum == BroadcastAdd(cur, eff)
      out == ClipWindow(config.signal_ranges, rule.param, SavgolFilter(sum.val))
      next == [st EXCEPT !.rng = RngAfter(st.rng, draws), !.effect = eff,
                         !.bound = TRUE]
  IN IF rule.param \notin DOMAIN st.signals THEN st
     ELSE IF rule.kind = "bad" THEN raise
     ELSE IF rule.kind = "none" /\ ~st.bound THEN raise
     ELSE IF ~sum.ok \/ Len(sum.val) < 5
     THEN [next EXCEPT !.raised = TRUE]
     ELSE IF Len(out) # cnt /\ Len(out) # 1
     THEN [next EXCEPT !.raised = TRUE]
     ELSE [next EXCEPT !.signals[rule.param] = WriteWindow(@, idx, lo, out)]

RECURSIVE ApplyRules(_, _, _, _, _, _)
ApplyRules(config, st, rules, start, end, intensity) ==
  IF rules = <<>> \/ st.raised THEN st
  ELSE ApplyRules(config, ApplyRule(config, st, Head(rules), start, end, intensity),
                  Tail(rules), start, end, intensity)

\* apply_clinical_event(signals, event_type, start_idx, duration, intensity):
\* the signal table it leaves (it writes in place, so also when it raises),
\* the random source it leaves, and whether it raised
ApplyClinicalEvent(config, signals, rng0, event_type, start_idx, duration, intensity) ==
  LET defs == config.event_definitions
      st0 == [signals |-> signals, rng |-> rng0, effect |-> <<>>,
              bound |-> FALSE, raised |-> FALSE]
      end_idx == Min2(start_idx + duration, Len(signals["SpO2"]))
      actual_duration == end_idx - start_idx
  IN IF event_type \notin DOMAIN defs \/ defs[event_type] = <<>>
     THEN [st0 EXCEPT !.raised = TRUE]
     ELSE IF actual_duration < 0
     THEN [st0 EXCEPT !.raised = TRUE]
     ELSE ApplyRules(config, st0, defs[event_type], start_idx, end_idx, intensity)

(***************************************************************************)
(* add_sensor_noise                                                        *)
(***************************************************************************)
\* the per-channel factor on noise_level: 'pupil' in param halves it,
\* 'gaze' in param doubles it
NoiseFactor(param) ==
  IF param \in {"pupil_diameter_left", "pupil_diameter_right"} THEN 500
  ELSE IF param \in {"gaze_x", "gaze_y"} THEN 2000
  ELSE 1000

\* add_sensor_noise without its np.clip
NoisyChannelUnclipped(sr, param, values, stream) ==
  LET param_noise == Mul(100, NoiseFactor(param))
      noise == Normal(stream, 0, 0, Mul(param_noise, Std(values)), Len(values))
  IN [i \in 1..Len(values) |-> values[i] + noise[i]]

\* one channel of add_sensor_noise (noise_level = 0.1): values + noise,
\* clipped to the channel's range
NoisyChannel(sr, param, values, stream) ==
  LET param_noise == Mul(100, NoiseFactor(param))
      noise == Normal(stream, 0, 0, Mul(param_noise, Std(values)), Len(values))
  IN ClipSeq([i \in 1..Len(values) |-> values[i] + noise[i]], sr[param])

\* the channels of the table that add_sensor_noise touches, in table order
RECURSIVE RangedBefore(_, _)
RangedBefore(sr, k) ==
  IF k = 0 THEN 0
  ELSE RangedBefore(sr, k - 1) + (IF Channels[k] \in DOMAIN sr THEN 1 ELSE 0)

\* add_sensor_noise(signals): every channel with a configured range draws
\* len(values) deviates, in table order; the others pass through
AddSensorNoise(config, signals, rng0) ==
  LET sr == config.signal_ranges
      n == Len(signals["SpO2"])
      pos(c) == CHOOSE k \in 1..Len(Channels) : Channels[k] = c
  IN [signals |->
        [c \in ChannelSet |->
           IF c \notin DOMAIN sr THEN signals[c]
           ELSE NoisyChannel(sr, c, signals[c],
                  RngStream(RngAfter(rng0, RangedBefore(sr, pos(c) - 1) * n), n))],
      rng |-> RngAfter(rng0, RangedBefore(sr, Len(Channels)) * n)]

(***************************************************************************)
(* generate_dataset: the table it assembles                                *)
(***************************************************************************)
\* np.round(v, d) for a step of 10^(3-d) thousandths: to the nearest multiple
\* of step, a tie going to the even multiple
RoundTo(v, step) ==
  LET q == v \div step
      r == v % step
  IN IF 2 * r < step THEN q * step
     ELSE IF 2 * r > step THEN (q + 1) * step
     ELSE IF q % 2 = 0 THEN q * step ELSE (q + 1) * step

\* v.astype(int): the fraction is dropped (towards zero)
AsInt(v) == IF v >= 0 THEN (v \div 1000) * 1000 ELSE -(((-v) \div 1000) * 1000)

\* the column of the DataFrame for channel k with values v
Column(k, v) ==
  IF k \in {"pupil_diameter_left", "pupil_diameter_right", "gaze_x", "gaze_y",
            "fixation_duration"}
  THEN [i \in 1..Len(v) |-> RoundTo(v[i], 10)]
  ELSE IF k # "pulse_rate" /\ k # "blink_rate"
  THEN [i \in 1..Len(v) |-> RoundTo(v[i], 100)]
  ELSE [i \in 1..Len(v) |-> AsInt(v[i])]

\* num_points = duration_hours * 60 // resolution_min
NumPoints(config) == (config.duration_hours * 60) \div config.resolution_min

\* timestamps that step by one minute whatever the resolution
TimestampsUnscaled(config, n) == [k \in 1..n |-> config.base_time + (k - 1)]

\* timestamps = [base_time + timedelta(minutes=i*resolution_min) for i in range(num_points)]
Timestamps(config, n) ==
  [k \in 1..n |-> config.base_time + (k - 1) * config.resolution_min]

\* an event request: the dict's keys and the values under them
Event(t, s, d, i) ==
  [keys |-> {"type", "start", "duration", "intensity"},
   type |-> t, start |-> s, duration |-> d, intensity |-> i]

default_events ==
  << Event("hypoxemia", 30, 10, 800), Event("tachycardia", 65, 8, 1000),
     Event("fever", 120, 15, 700), Event("cognitive_load", 45, 20, 1200),
     Event("fatigue", 100, 25, 900) >>

\* events=None, the default of generate_dataset's parameter
NoEvents == [given |-> FALSE, list |-> <<>>]

\* events or default_events: None and [] are falsy
EventsOrDefault(events) == IF events.list = <<>> THEN default_events ELSE events.list

\* event.get('intensity', 1.0)
IntensityOf(event) == IF "intensity" \in event.keys THEN event.intensity ELSE 1000

(***************************************************************************)
(* Inputs: the configurations a caller constructs the generator with and    *)
(* the event lists it requests.                                            *)
(***************************************************************************)
\* config={}
EmptyConfig ==
  [ keys |-> {}, base_time |-> 0, duration_hours |-> 0,
    resolution_min |-> 0, signal_ranges |-> <<>>, event_definitions |-> <<>> ]

\* the default configuration over one hour at a resolution of res minutes
HourConfig(res) == [DefaultConfig EXCEPT !.duration_hours = 1, !.resolution_min = res]

\* a caller's own catalogue and ranges: gaze_x has no range, the pulse range
\* starts at 79.5, and the catalogue holds a rule that names no channel of
\* the table, a rule whose delta is a string, a rule with neither key, and
\* an event without rules
CustomConfig ==
  [ HourConfig(10) EXCEPT
      !.signal_ranges =
         [c \in ChannelSet \ {"gaze_x"} |->
            IF c = "pulse_rate" THEN <<79500, 140000>> ELSE DefaultRanges[c]],
      !.event_definitions =
         [t \in {"hypoxemia", "sepsis", "drift", "empty"} |->
            CASE t = "hypoxemia" -> DefaultEventDefinitions["hypoxemia"]
              [] t = "sepsis" ->
                   << Delta("heart_rate", 5000), Delta("SpO2", -3000),
                      BadDelta("pulse_rate"), Delta("resp_rate", 4000) >>
              [] t = "drift" ->
                   << Delta("pulse_rate", 15000), NoEffect("resp_rate"),
                      Delta("gaze_x", 2000) >>
              [] t = "empty" -> << >>] ]

Configs ==
  { NoConfig, EmptyConfig, HourConfig(1), HourConfig(7), CustomConfig,
    [HourConfig(10) EXCEPT !.keys = RequiredKeys \ {"event_definitions"}],
    [HourConfig(10) EXCEPT !.keys = {"base_time"}],
    [HourConfig(10) EXCEPT !.signal_ranges["SpO2"] = <<100000, 88000>>],
    [HourConfig(10) EXCEPT !.signal_ranges["blink_rate"] = <<1000, 1000>>] }

\* an event request without the 'intensity' key
EventNoIntensity(t, s, d) ==
  [keys |-> {"type", "start", "duration"},
   type |-> t, start |-> s, duration |-> d, intensity |-> 0]

\* an event request without the 'start' key
EventNoStart(t, d) ==
  [keys |-> {"type", "duration", "intensity"},
   type |-> t, start |-> 0, duration |-> d, intensity |-> 1000]

\* the requests a caller makes of a generator with this configuration
EventPool(config) ==
  IF config = CustomConfig
  THEN { Event("bogus", 0, 5, 1000), Event("hypoxemia", 1, 6, 1000),
         Event("sepsis", 0, 5, 1000), Event("drift", 0, 6, 800),
         Event("empty", 0, 5, 1000) }
  ELSE IF NumPoints(config) < 20
  THEN { Event("fever", -8, 5, 1000), Event("hypoxemia", 1, 6, 1000),
         EventNoIntensity("tachycardia", 0, 5), Event("fatigue", 2, 3, 800),
         EventNoStart("fever", 5) }
  ELSE IF NumPoints(config) < 100
  THEN { Event("bogus", 0, 5, 1000), Event("hypoxemia", 10, 10, 1000),
         EventNoIntensity("cognitive_load", 15, 8) }
  ELSE { Event("hypoxemia", 30, 10, 800) }

RECURSIVE SeqsUpTo(_, _)
\* the sequences of at most n elements of S
SeqsUpTo(S, n) ==
  IF n = 0 THEN {<<>>}
  ELSE LET shorter == SeqsUpTo(S, n - 1)
       IN shorter \cup {Append(q, e) : q \in shorter, e \in S}

\* the values of generate_dataset's events argument: None, or a list
EventArgs(config) ==
  {NoEvents} \cup {[given |-> TRUE, list |-> q] : q \in SeqsUpTo(EventPool(config), MaxEvents)}

(***************************************************************************)
(* State.                                                                  *)
(***************************************************************************)
VARIABLES
  pc,         \* where the caller's program is
  arg,        \* the config argument __init__ was called with
  config,     \* self.config
  rng,        \* numpy's global random source
  seed0,      \* the random source as it was when generate_dataset was entered
  events,     \* the events argument of generate_dataset
  idx,        \* position of the loop over the events (1-based)
  num_points, \* the local num_points
  timestamps, \* the local timestamps
  signals,    \* the local signals (the signal table)
  log,        \* the records written to the logger by this call
  df,         \* the DataFrame returned
  prev        \* what the previous call of generate_dataset started from and returned

vars == <<pc, arg, config, rng, seed0, events, idx, num_points, timestamps,
          signals, log, df, prev>>

NoFrame == [timestamp |-> <<>>, columns |-> <<>>, event_log |-> <<>>,
            generation_config |-> NoConfig]

NoPrev == [calls |-> 0, seed0 |-> 0, signals |-> <<>>, df |-> NoFrame]

\* the random source of a fresh process is seeded from the system's entropy
Init ==
  /\ pc = "new"
  /\ arg = NoConfig
  /\ config = NoConfig
  /\ rng \in {SeedState(s) : s \in 0..MaxSeed}
  /\ seed0 = 0
  /\ events = NoEvents
  /\ idx = 0
  /\ num_points = 0
  /\ timestamps = <<>>
  /\ signals = <<>>
  /\ log = <<>>
  /\ df = NoFrame
  /\ prev = NoPrev

\* ClinicalDataGenerator(c): __init__ and validate_config
Construct(c) ==
  /\ pc = "new"
  /\ arg' = c
  /\ config' = ConfigOrDefault(c)
  /\ pc' = IF ValidateConfig(ConfigOrDefault(c)) THEN "ready" ELSE "config_error"
  /\ UNCHANGED <<rng, seed0, events, idx, num_points, timestamps, signals, log,
                 df, prev>>

\* np.random.seed(s), called before generate_dataset
Seed(s) ==
  /\ pc = "ready"
  /\ rng' = SeedState(s)
  /\ UNCHANGED <<pc, arg, config, seed0, events, idx, num_points, timestamps,
                 signals, log, df, prev>>

\* generate_dataset drawing from a source that np.random.seed does not
\* reach: the baseline continues from where the source was left
EnterUnseeded(ev, rng0) ==
  /\ seed0' = rng0
  /\ events' = ev
  /\ log' = <<>>
  /\ num_points' = NumPoints(config)
  /\ timestamps' = Timestamps(config, NumPoints(config))
  /\ \E b \in {GenerateBaseSignals(config, rng, NumPoints(config))} :
       /\ signals' = b.signals
       /\ rng' = b.rng
       /\ pc' = IF b.raised THEN "failed" ELSE "events"
  /\ idx' = 1
  /\ UNCHANGED <<arg, config, df>>

\* generate_dataset, lines 195-208: num_points, timestamps, the baseline
Enter(ev, rng0) ==
  /\ seed0' = rng0
  /\ events' = ev
  /\ log' = <<>>
  /\ num_points' = NumPoints(config)
  /\ timestamps' = Timestamps(config, NumPoints(config))
  /\ \E b \in {GenerateBaseSignals(config, rng0, NumPoints(config))} :
       /\ signals' = b.signals
       /\ rng' = b.rng
       /\ pc' = IF b.raised THEN "failed" ELSE "events"
  /\ idx' = 1
  /\ UNCHANGED <<arg, config, df>>

\* the first call of generate_dataset(ev)
GenerateDataset ==
  /\ pc = "ready"
  /\ prev' = prev
  /\ \E ev \in EventArgs(config) : Enter(ev, rng)

\* np.random.seed(s) and the same request made once more of the same
\* generator
Repeat(s) ==
  /\ pc = "done"
  /\ prev.calls = 0
  /\ prev' = [calls |-> 1, seed0 |-> seed0, signals |-> signals, df |-> df]
  /\ Enter(events, SeedState(s))

\* the loop without its try/except: what apply_clinical_event raises leaves
\* generate_dataset
ApplyEventNoCatch ==
  /\ pc = "events"
  /\ idx <= Len(EventsOrDefault(events))
  /\ LET event == EventsOrDefault(events)[idx]
     IN IF ~({"type", "start", "duration"} \subseteq event.keys)
        THEN /\ pc' = "failed"
             /\ UNCHANGED <<signals, rng, log>>
        ELSE \E r \in {ApplyClinicalEvent(config, signals, rng, event.type,
                         event.start, event.duration, IntensityOf(event))} :
               /\ signals' = r.signals
               /\ rng' = r.rng
               /\ pc' = IF r.raised THEN "failed" ELSE pc
               /\ log' = IF r.raised THEN log
                         ELSE Append(log, [level |-> "info", event |-> event])
  /\ idx' = idx + 1
  /\ UNCHANGED <<arg, config, seed0, events, num_points, timestamps, df, prev>>

\* one pass of the loop over the events, lines 210-219: the call of
\* apply_clinical_event inside try, and the two logger calls
ApplyEvent ==
  /\ pc = "events"
  /\ idx <= Len(EventsOrDefault(events))
  /\ LET event == EventsOrDefault(events)[idx]
     IN IF ~({"type", "start", "duration"} \subseteq event.keys)
        THEN /\ log' = Append(log, [level |-> "error", event |-> event])
             /\ UNCHANGED <<signals, rng>>
        ELSE \E r \in {ApplyClinicalEvent(config, signals, rng, event.type,
                         event.start, event.duration, IntensityOf(event))} :
               /\ signals' = r.signals
               /\ rng' = r.rng
               /\ log' = Append(log, [level |-> IF r.raised THEN "error" ELSE "info",
                                      event |-> event])
  /\ idx' = idx + 1
  /\ UNCHANGED <<pc, arg, config, seed0, events, num_points, timestamps, df, prev>>

\* the noise stage entered from any position of the loop over the events
AddNoiseEarly ==
  /\ pc = "events"
  /\ \E r \in {AddSensorNoise(config, signals, rng)} :
       /\ signals' = r.signals
       /\ rng' = r.rng
  /\ pc' = "assemble"
  /\ UNCHANGED <<arg, config, seed0, events, idx, num_points, timestamps, log,
                 df, prev>>

\* line 221, after the loop
AddNoise ==
  /\ pc = "events"
  /\ idx > Len(EventsOrDefault(events))
  /\ \E r \in {AddSensorNoise(config, signals, rng)} :
       /\ signals' = r.signals
       /\ rng' = r.rng
  /\ pc' = "assemble"
  /\ UNCHANGED <<arg, config, seed0, events, idx, num_points, timestamps, log,
                 df, prev>>

\* the events that the log records as applied, with the intensity used
AppliedEvents(lg) ==
  LET ok == SelectSeq(lg, LAMBDA r : r.level = "info")
  IN [j \in 1..Len(ok) |->
        [ok[j].event EXCEPT !.keys = @ \cup {"intensity"},
                            !.intensity = IntensityOf(ok[j].event)]]

\* an assembler whose event_log lists the applied events only
AssembleAppliedOnly ==
  /\ pc = "assemble"
  /\ df' = [timestamp |-> timestamps,
            columns |-> [k \in DOMAIN signals |-> Column(k, signals[k])],
            event_log |-> AppliedEvents(log),
            generation_config |-> config]
  /\ pc' = "done"
  /\ UNCHANGED <<arg, config, rng, seed0, events, idx, num_points, timestamps,
                 signals, log, prev>>

\* lines 224-236: the DataFrame and its attrs
Assemble ==
  /\ pc = "assemble"
  /\ df' = [timestamp |-> timestamps,
            columns |-> [k \in DOMAIN signals |-> Column(k, signals[k])],
            event_log |-> EventsOrDefault(events),
            generation_config |-> config]
  /\ pc' = "done"
  /\ UNCHANGED <<arg, config, rng, seed0, events, idx, num_points, timestamps,
                 signals, log, prev>>

Next ==
  \/ \E c \in Configs : Construct(c)
  \/ \E s \in 0..MaxSeed : Seed(s)
  \/ GenerateDataset
  \/ \E s \in 0..MaxSeed : Repeat(s)
  \/ ApplyEvent
  \/ AddNoise
  \/ Assemble

Spec == Init /\ [][Next]_vars

(***************************************************************************)
(* Vocabulary of the properties.                                           *)
(***************************************************************************)
\* the list the loop of generate_dataset runs over
EventList == EventsOrDefault(events)

\* the event's type is present and is no key of event_definitions
UnknownTypeIn(cfg, e) == "type" \in e.keys /\ e.type \notin DOMAIN cfg.event_definitions

UnknownType(e) == UnknownTypeIn(config, e)

\* the channels of the table that have a configured range
Ranged == DOMAIN config.signal_ranges \cap ChannelSet

\* the step the DataFrame reports channel k in: 0.01, 0.1 or 1
ReportStep(k) ==
  IF k \in {"pupil_diameter_left", "pupil_diameter_right", "gaze_x", "gaze_y",
            "fixation_duration"} THEN 10
  ELSE IF k \in {"pulse_rate", "blink_rate"} THEN 1000 ELSE 100

InRange(v, r) == r[1] <= v /\ v <= r[2]

(***************************************************************************)
(* C1.  Samples of ranged channels and their range.                        *)
(***************************************************************************)
\* C1 as stated: in the Dataset returned by generate_dataset every value of
\* every channel that has a configured range lies within [min, max].
C1_DatasetWithinRange ==
  pc = "done" =>
    \A c \in Ranged : \A i \in 1..Len(df.columns[c]) :
      InRange(df.columns[c][i], config.signal_ranges[c])

\* C1 amended: after the noise stage every sample of a ranged channel lies
\* within [min, max] in the signal table; the Dataset value differs from it
\* by less than one reporting step, and lies within [min, max] whenever both
\* bounds are multiples of the channel's reporting step.
C1_NoiseStageWithinRange ==
  pc \in {"assemble", "done"} =>
    \A c \in Ranged : \A i \in 1..Len(signals[c]) :
      /\ InRange(signals[c][i], config.signal_ranges[c])
      /\ pc = "done" =>
           /\ Abs(df.columns[c][i] - signals[c][i]) < ReportStep(c)
           /\ (config.signal_ranges[c][1] % ReportStep(c) = 0
                /\ config.signal_ranges[c][2] % ReportStep(c) = 0)
              => InRange(df.columns[c][i], config.signal_ranges[c])

\* a Dataset was returned in which a sample sits on the bound it was clipped
\* to and a value was changed by the rounding
C1_Witness ==
  /\ pc = "done"
  /\ \E c \in Ranged : \E i \in 1..Len(signals[c]) :
       signals[c][i] = config.signal_ranges[c][2]
  /\ \E c \in Ranged : \E i \in 1..Len(signals[c]) :
       df.columns[c][i] # signals[c][i]

(***************************************************************************)
(* C2.  An event of unknown type.                                          *)
(***************************************************************************)
\* the loop is at an event whose type is no key of event_definitions
AtUnknownEvent ==
  pc = "events" /\ idx <= Len(EventList) /\ UnknownType(EventList[idx])

\* C2: the pass of the loop over an event of unknown type leaves the signal
\* table and the random source as they were, logs the failure and goes on to
\* the next event; nothing raised in the loop leaves generate_dataset, so the
\* noise stage follows the last event; and the Dataset is returned after
\* every event of the list has had its pass, in the order of the list, the
\* events of unknown type as failures.
C2_UnknownEventSkipped ==
  [][ /\ AtUnknownEvent =>
           /\ signals' = signals
           /\ rng' = rng
           /\ pc' = "events"
           /\ idx' = idx + 1
           /\ log' = Append(log, [level |-> "error", event |-> EventList[idx]])
      /\ pc = "events" => pc' \in {"events", "assemble"}
      /\ pc = "assemble" => pc' \in {"assemble", "done"}
      /\ pc' = "done" =>
           /\ Len(log') = Len(EventList')
           /\ \A j \in 1..Len(log') :
                /\ log'[j].event = EventList'[j]
                /\ UnknownTypeIn(config', EventList'[j]) => log'[j].level = "error"
           /\ Len(df'.timestamp) = num_points'
    ]_vars

\* a Dataset was returned for a list in which an event of unknown type is
\* followed by an event that was applied
C2_Witness ==
  /\ pc = "done"
  /\ \E i \in 1..Len(log) : \E j \in 1..Len(log) :
       /\ i < j
       /\ UnknownType(log[i].event)
       /\ log[i].level = "error"
       /\ log[j].level = "info"

(***************************************************************************)
(* C3.  An event whose application fails otherwise.                        *)
(***************************************************************************)
\* C3 as stated: a pass of the loop that ends in the except branch (the event
\* is logged as failed) leaves every channel of the signal table as it was,
\* and the loop goes on.
C3_FailedEventLeavesNoChange ==
  [][ (pc = "events" /\ idx' = idx + 1 /\ log'[Len(log')].level = "error") =>
        (signals' = signals /\ pc' = "events")
    ]_vars

(***************************************************************************)
(* C4.  A request with an empty event list.                                *)
(***************************************************************************)
\* the columns of the Dataset when the baseline drawn from rng0 goes through
\* the noise stage and the rounding with no event in between
BaselineColumns(cfg, rng0) ==
  LET b == GenerateBaseSignals(cfg, rng0, NumPoints(cfg))
      n == AddSensorNoise(cfg, b.signals, b.rng)
  IN [k \in ChannelSet |-> Column(k, n.signals[k])]

\* C4 as stated: for generate_dataset([]) no event is applied and the
\* Dataset's columns are the baseline with noise and rounding only.
C4_EmptyListInjectsNothing ==
  (pc = "done" /\ events.given /\ events.list = <<>>) =>
    /\ \A j \in 1..Len(log) : log[j].level # "info"
    /\ df.columns = BaselineColumns(config, seed0)

(***************************************************************************)
(* C5.  Validation of a caller-supplied configuration.                     *)
(***************************************************************************)
\* the configuration has the five keys and min < max in every range
WellFormed(c) ==
  /\ RequiredKeys \subseteq c.keys
  /\ \A p \in DOMAIN c.signal_ranges : c.signal_ranges[p][1] < c.signal_ranges[p][2]

\* C5 as stated: with a caller-supplied configuration the constructor fails,
\* with no signal generated, exactly when that configuration lacks a required
\* key or has a range with min >= max.
C5_ConstructionFailsOnInvalidConfig ==
  (pc # "new" /\ arg # NoConfig) =>
    /\ (pc = "config_error") <=> ~WellFormed(arg)
    /\ pc = "config_error" => (signals = <<>> /\ df = NoFrame)

(***************************************************************************)
(* C6.  A min/max target rule.                                             *)
(***************************************************************************)
\* the samples of channel c of table t in the window of event e
WindowOf(t, c, e) ==
  LET n == Len(t[c])
      w == SliceIdx(n, e.start, Min2(e.start + e.duration, n))
      lo == IF w = {} THEN 0 ELSE (CHOOSE i \in w : \A j \in w : i <= j) - 1
  IN [i \in 1..Cardinality(w) |-> t[c][lo + i]]

\* C6 as stated, for every event that was applied and every min/max rule of
\* it on a channel of the table: the mean of the channel's window is no
\* farther from the midpoint of [min, max] after the event than before it,
\* and the window is not left sitting on the upper bound of the channel's
\* range when the midpoint lies below that bound.
C6_TargetConverges ==
  [][ (pc = "events" /\ idx' = idx + 1 /\ log'[Len(log')].level = "info") =>
        LET e == EventList[idx]
            rules == config.event_definitions[e.type]
        IN \A k \in 1..Len(rules) :
             (rules[k].kind = "target" /\ rules[k].param \in Ranged) =>
               LET c == rules[k].param
                   mid == RDiv(rules[k].a + rules[k].b, 2)
                   before == WindowOf(signals, c, e)
                   after == WindowOf(signals', c, e)
                   top == config.signal_ranges[c][2]
               IN /\ Abs(Mean(after) - mid) <= Abs(Mean(before) - mid)
                  /\ mid < top => \E i \in 1..Len(after) : after[i] # top
    ]_vars

(***************************************************************************)
(* C7.  The event log attached to the Dataset.                             *)
(***************************************************************************)
\* C7 as stated: df.attrs['event_log'] is the list of the events that were
\* applied, each with the intensity used for it; a skipped event is not in it.
C7_EventLogIsApplied ==
  pc = "done" => df.event_log = AppliedEvents(log)

\* C7 amended: df.attrs['event_log'] is the list of the events that were
\* requested (the five default events when the request was None or empty),
\* in order and exactly as requested, whether their application succeeded or
\* was skipped: entry j is the event of the j-th pass of the loop.
C7_EventLogIsRequested ==
  pc = "done" =>
    /\ df.event_log = (IF events.list = <<>> THEN default_events ELSE events.list)
    /\ Len(df.event_log) = Len(log)
    /\ \A j \in 1..Len(log) : df.event_log[j] = log[j].event

\* a Dataset was returned after one event was skipped and another, requested
\* without an intensity, was applied
C7_Witness ==
  /\ pc = "done"
  /\ \E j \in 1..Len(log) : log[j].level = "error"
  /\ \E j \in 1..Len(log) :
       log[j].level = "info" /\ "intensity" \notin log[j].event.keys

(***************************************************************************)
(* C8.  Rows and timestamps.                                               *)
(***************************************************************************)
\* C8: the signal table has num_points samples per channel at every stage,
\* and the Dataset has num_points = (duration_hours * 60) div resolution_min
\* rows, row i stamped base_time + i * resolution_min, so consecutive rows
\* are resolution_min minutes apart, whatever events were skipped.
C8_RowsAndTimestamps ==
  /\ pc \in {"events", "assemble", "done"} =>
       \A c \in ChannelSet : Len(signals[c]) = num_points
  /\ pc = "done" =>
       LET n == (config.duration_hours * 60) \div config.resolution_min
       IN /\ Len(df.timestamp) = n
          /\ \A c \in ChannelSet : Len(df.columns[c]) = n
          /\ \A i \in 1..n :
               df.timestamp[i] = config.base_time + (i - 1) * config.resolution_min
          /\ \A i \in 1..(n - 1) :
               df.timestamp[i + 1] - df.timestamp[i] = config.resolution_min

\* a Dataset of 60 div 7 = 8 rows was returned after an event was skipped
C8_Witness ==
  /\ pc = "done"
  /\ config.resolution_min = 7
  /\ Len(df.timestamp) = 8
  /\ \E j \in 1..Len(log) : log[j].level = "error"

C10_RoundedToNearest ==
  pc = "done" =>
    \A c \in ChannelSet : \A i \in 1..Len(signals[c]) :
      /\ c = "pulse_rate" => df.columns[c][i] = RoundTo(signals[c][i], 1000)
      /\ c = "blink_rate" => df.columns[c][i] \in {0, 1000}
      /\ c \notin {"pulse_rate", "blink_rate"} =>
           df.columns[c][i] = RoundTo(signals[c][i], ReportStep(c))

(***************************************************************************)
(* C11.  The range bound at every stage boundary.                          *)
(***************************************************************************)
\* the windows of two event requests have a sample in common
Overlap(e, f) ==
  /\ e.start < f.start + f.duration
  /\ f.start < e.start + e.duration

\* C11: after generate_base_signals, after every pass of the loop over the
\* events (the event applied or failed) and after add_sensor_noise, every
\* sample of every channel that has a configured range lies within it.
C11_RangeAtEveryStage ==
  pc \in {"events", "assemble", "done"} =>
    \A c \in Ranged : \A i \in 1..Len(signals[c]) :
      InRange(signals[c][i], config.signal_ranges[c])

\* the loop has applied two events on overlapping windows, and a sample of
\* the table sits on the bound it was clipped to
C11_Witness ==
  /\ pc = "events"
  /\ \E i \in 1..Len(log) : \E j \in 1..Len(log) :
       /\ i < j
       /\ log[i].level = "info" /\ log[j].level = "info"
       /\ log[i].event.start >= 0 /\ log[j].event.start >= 0
       /\ Overlap(log[i].event, log[j].event)
  /\ \E c \in Ranged : \E i \in 1..Len(signals[c]) :
       signals[c][i] = config.signal_ranges[c][2]
  /\ signals # BaseSignals(config.signal_ranges, seed0, num_points)

(***************************************************************************)
(* C12.  The frame of one call of apply_clinical_event.                    *)
(***************************************************************************)
\* the channels named in the rule set of the event's type
NamedChannels(cfg, e) ==
  IF e.type \in DOMAIN cfg.event_definitions
  THEN {cfg.event_definitions[e.type][r].param :
          r \in 1..Len(cfg.event_definitions[e.type])}
  ELSE {}

\* sample k (counted from 0) of an array of n samples has an index in
\* [start, min(start + duration, n)); a sample's indices are k and, counted
\* from the end as Python does, k - n
InWindow(k, e, n) ==
  LET end_idx == Min2(e.start + e.duration, n)
  IN \/ e.start <= k /\ k < end_idx
     \/ e.start <= k - n /\ k - n < end_idx

AppliesTo(cfg, e, n) ==
  /\ {"type", "start", "duration"} \subseteq e.keys
  /\ e.type \in DOMAIN cfg.event_definitions
  /\ cfg.event_definitions[e.type] # <<>>
  /\ \A r \in 1..Len(cfg.event_definitions[e.type]) :
       cfg.event_definitions[e.type][r].kind \in {"delta", "target"}
  /\ 0 <= e.start /\ e.start < n
  /\ e.duration >= 1

\* C13 as stated: an event of a known type whose window, cut at the end of
\* the table, is not empty is applied to that window whatever its length, a
\* window of fewer than five samples included: the pass of the loop logs it
\* as applied.
C13_ShortWindowApplied ==
  [][ (pc = "events" /\ idx' = idx + 1
       /\ AppliesTo(config, EventList[idx], num_points)) =>
        log'[Len(log')].level = "info"
    ]_vars

(***************************************************************************)
(* C14.  The order of the stages of one generate_dataset call.             *)
(***************************************************************************)
\* the table apply_clinical_event leaves when request e is applied to table
\* t with the random source in state r
AfterEvent(t, r, e) ==
  ApplyClinicalEvent(config, t, r, e.type, e.start, e.duration,
                     IntensityOf(e)).signals

\* C14: a call of generate_dataset synthesizes the baseline once, then gives
\* every event of the request list one pass, in the order of the list, each
\* on the table the pass before it left; the noise stage follows the pass of
\* the last event and runs once, on the table that pass left; the table is
\* assembled from what the noise stage left, and nothing changes the table
\* between the noise stage and the return.
C14_StageOrder ==
  [][ /\ (pc # "events" /\ pc' = "events") =>
           /\ pc \in {"ready", "done"}
           /\ idx' = 1
           /\ log' = <<>>
           /\ signals' = BaseSignals(config.signal_ranges, seed0', num_points')
      /\ (pc = "events" /\ pc' = "events") =>
           /\ idx <= Len(EventList)
           /\ idx' = idx + 1
           /\ Len(log) = idx - 1
           /\ Len(log') = idx
           /\ SubSeq(log', 1, idx - 1) = log
           /\ log'[idx].event = EventList[idx]
           /\ {"type", "start", "duration"} \subseteq EventList[idx].keys =>
                signals' = AfterEvent(signals, rng, EventList[idx])
           /\ ~({"type", "start", "duration"} \subseteq EventList[idx].keys) =>
                signals' = signals
      /\ (pc = "events" /\ pc' # "events") =>
           /\ pc' = "assemble"
           /\ idx = Len(EventList) + 1
           /\ Len(log) = Len(EventList)
           /\ signals' = AddSensorNoise(config, signals, rng).signals
           /\ log' = log
      /\ pc = "assemble" =>
           /\ pc' = "done"
           /\ signals' = signals
           /\ log' = log
           /\ df'.columns = [k \in DOMAIN signals |-> Column(k, signals[k])]
      /\ (pc = "done" /\ pc' = "done") => (signals' = signals /\ df' = df)
    ]_vars

\* the loop has applied two events whose windows overlap, and a sample of
\* the second window that lies outside the first is not what the second
\* event alone would have left of the baseline
C14_Witness ==
  /\ pc = "events"
  /\ Len(EventList) = 2
  /\ idx = 3
  /\ log[1].level = "info" /\ log[2].level = "info"
  /\ log[1].event.start >= 0 /\ log[2].event.start >= 0
  /\ Overlap(log[1].event, log[2].event)
  /\ LET alone == AfterEvent(BaseSignals(config.signal_ranges, seed0, num_points),
                             RngAfter(seed0, BaseDraws(num_points)), log[2].event)
     IN \E c \in DOMAIN signals : \E i \in 1..num_points :
          /\ ~InWindow(i - 1, log[1].event, num_points)
          /\ InWindow(i - 1, log[2].event, num_points)
          /\ signals[c][i] # alone[c][i]

(***************************************************************************)
(* C15.  A rule with neither 'delta' nor both 'min' and 'max'.             *)
(***************************************************************************)
\* C15 as stated: a pass of the loop over the events leaves every channel
\* whose rule in the event's rule set has neither a 'delta' key nor both
\* 'min' and 'max' as it was: no effect computed for another channel is
\* written to it.
C15_OwnRuleOnly ==
  [][ (pc = "events" /\ idx' = idx + 1
       /\ {"type", "start", "duration"} \subseteq EventList[idx].keys
       /\ EventList[idx].type \in DOMAIN config.event_definitions) =>
        LET rules == config.event_definitions[EventList[idx].type]
        IN \A r \in 1..Len(rules) :
             (rules[r].kind = "none" /\ rules[r].param \in DOMAIN signals) =>
               signals'[rules[r].param] = signals[rules[r].param]
    ]_vars

====
